---- MODULE Spec2Model ----
(***************************************************************************)
(* BookCrop: the crop-geometry and propagation engine of BookCropApp       *)
(* (src/bookcrop_app.py), the box gestures of ScaledImageViewer            *)
(* (src/image_viewer.py) and the folder scan of ImageLoader                *)
(* (src/image_loader.py), as a state machine with one action per handler.  *)
(*                                                                         *)
(* Python dicts are functions whose DOMAIN is the set of keys present, so  *)
(* "'right_box' in crop_data" is "right_box" \in DOMAIN crop_data.  Page    *)
(* indices are 0-based as in the source.  Handlers are operators from a    *)
(* record of the application's fields to the record after the call, so a   *)
(* handler that calls other methods is the composition of their operators. *)
(***************************************************************************)
EXTENDS Integers, Sequences, FiniteSets, TLC

\* ---------------------------------------------------------------- bounds
\* The user's inputs that change the session's data (a folder opened, a save,
\* a mode click, a spin box edit, a mouse move, a mouse release) in one
\* behaviour.  Navigation and mouse presses are not counted.
MaxOps == 4

\* ------------------------------------------------------ program constants
DefaultCropWidth == 800
DefaultCropHeight == 1200
SpinMin == 100
SpinMax == 5000
MinBoxSize == 50

None == [none |-> TRUE]

SUPPORTED_FORMATS == {".jpg", ".jpeg", ".png", ".tiff", ".tif", ".bmp"}

\* ------------------------------------------------------------ the folders
\* A directory listing in sorted-name order.  size is what PIL reports when
\* the header decodes (None when Image.open raises); preview is the size of
\* the thumbnail pixmap (None when decoding the pixels raises).
DirA ==
  << [name |-> "p1.jpg", suffix |-> ".jpg", size |-> <<1000, 1500>>, preview |-> <<400, 600>>],
     [name |-> "p2.jpg", suffix |-> ".jpg", size |-> <<1000, 1500>>, preview |-> <<400, 600>>],
     [name |-> "p3.jpg", suffix |-> ".jpg", size |-> <<1000, 1500>>, preview |-> <<400, 600>>] >>

\* a text file, a good scan, a truncated scan (header readable, pixels not)
\* and a file that does not decode at all
DirB ==
  << [name |-> "notes.txt", suffix |-> ".txt", size |-> None, preview |-> None],
     [name |-> "p1.jpg", suffix |-> ".jpg", size |-> <<1600, 1200>>, preview |-> <<800, 600>>],
     [name |-> "p2.jpg", suffix |-> ".jpg", size |-> <<1001, 1501>>, preview |-> None],
     [name |-> "p3.jpg", suffix |-> ".jpg", size |-> None, preview |-> None] >>

DirE ==
  << [name |-> "notes.txt", suffix |-> ".txt", size |-> None, preview |-> None] >>

Folders == {"A", "B", "E"}

Listing(folder) ==
  IF folder = "A" THEN DirA ELSE IF folder = "B" THEN DirB ELSE DirE

\* ------------------------------------------------------------ ImageLoader
\* ImageLoader._scan_folder: every file with a supported suffix is appended
\* to image_files before its size is read.
RECURSIVE ScanNames(_)
ScanNames(dir) ==
  IF dir = <<>> THEN <<>>
  ELSE IF Head(dir).suffix \in SUPPORTED_FORMATS
       THEN <<Head(dir).name>> \o ScanNames(Tail(dir))
       ELSE ScanNames(Tail(dir))

image_files(loader) == ScanNames(Listing(loader))

\* original_sizes holds an entry only for the files Image.open could read
original_sizes(loader) ==
  LET dir == Listing(loader)
      ok  == {i \in 1..Len(dir) : dir[i].suffix \in SUPPORTED_FORMATS /\ dir[i].size # None}
  IN  [n \in {dir[i].name : i \in ok} |->
         (CHOOSE i \in ok : dir[i].name = n) \* names are unique in a folder
      ]

get_original_size(loader, filename) ==
  IF filename \in DOMAIN original_sizes(loader)
  THEN Listing(loader)[original_sizes(loader)[filename]].size
  ELSE <<0, 0>>

\* the preview pixmap's size, or None when get_preview returns None
get_preview(loader, filename) ==
  LET dir == Listing(loader)
      hit == {i \in 1..Len(dir) : dir[i].name = filename}
  IN  IF hit = {} THEN None ELSE dir[CHOOSE i \in hit : TRUE].preview

NumFiles(loader) == IF loader = "none" THEN 0 ELSE Len(image_files(loader))

\* image_files[i], 0-based
FileAt(loader, i) == image_files(loader)[i + 1]

\* --------------------------------------------------------------- helpers
Has(d, k) == k \in DOMAIN d

\* dict.get(k, default)
Get(d, k, default) == IF k \in DOMAIN d THEN d[k] ELSE default

\* d[k] = v on a dict
Put(d, k, v) == [j \in DOMAIN d \cup {k} |-> IF j = k THEN v ELSE d[j]]

\* Python's int(p / scale) for scale = num/den > 0: truncation toward zero
IntDiv(p, scale) ==
  LET n == p * scale[2]
      d == scale[1]
  IN  IF n >= 0 THEN n \div d ELSE -((-n) \div d)

Min(a, b) == IF a <= b THEN a ELSE b
Max(a, b) == IF a >= b THEN a ELSE b

\* QSpinBox.setRange(100, 5000): setValue clamps
Clamp(v) == Max(SpinMin, Min(SpinMax, v))

\* CropBox.to_dict / CropBox.from_dict
to_dict(box) == [x |-> box.x, y |-> box.y, width |-> box.width, height |-> box.height]
from_dict(data) == [x |-> data.x, y |-> data.y, width |-> data.width, height |-> data.height]

\* a float quotient a / b as a fraction in lowest terms, b > 0
RECURSIVE GCD(_, _)
GCD(a, b) == IF b = 0 THEN a ELSE GCD(b, a % b)

Quotient(a, b) == << a \div GCD(a, b), b \div GCD(a, b) >>

\* the float 1.0
One == << 1, 1 >>

\* ImageLoader.get_scale_factor: the guard looks at the original size only,
\* the divisions by preview_size.width() and .height() are not guarded
get_scale_factor(loader, filename, preview_size) ==
  LET original_size == get_original_size(loader, filename)
  IN  IF original_size[1] = 0 \/ original_size[2] = 0
      THEN [scale |-> << One, One >>]
      ELSE IF preview_size[1] = 0 \/ preview_size[2] = 0
           THEN [raises |-> "ZeroDivisionError"]
           ELSE [scale |-> << Quotient(original_size[1], preview_size[1]),
                              Quotient(original_size[2], preview_size[2]) >>]

\* ---------------------------------------------------------- ImageExporter
\* An exported image is what Image.new, Image.crop and Image.paste made it:
\* a white canvas of some size and, when a section of the source was pasted,
\* the section's rectangle (left, top, right, bottom) and the paste position.
White == [white |-> TRUE]

\* the pixel at (i, j) of an exported image: the source pixel the paste put
\* there, or white
PixelOf(image, i, j) ==
  IF image.pasted = None THEN White
  ELSE LET section == image.pasted.section
           at == image.pasted.at
       IN  IF /\ at[1] <= i /\ i < at[1] + (section[3] - section[1])
              /\ at[2] <= j /\ j < at[2] + (section[4] - section[2])
           THEN [source |-> << section[1] + (i - at[1]), section[2] + (j - at[2]) >>]
           ELSE White

\* a variant that pastes the section at the canvas's corner
ExtractPastingAtCorner(img, box_data) ==
  LET left == Max(0, box_data.x)
      top == Max(0, box_data.y)
      right == Min(img.size[1], box_data.x + box_data.width)
      bottom == Min(img.size[2], box_data.y + box_data.height)
  IN  [ size |-> << box_data.width, box_data.height >>,
        pasted |-> IF left < right /\ top < bottom
                   THEN [section |-> << left, top, right, bottom >>, at |-> << 0, 0 >>]
                   ELSE None ]

\* ImageExporter._extract_crop_with_padding.  img.crop reads the pixels, which
\* raises for a file whose pixel data does not decode.
_extract_crop_with_padding(img, box_data) ==
  LET crop_x == box_data.x
      crop_y == box_data.y
      crop_width == box_data.width
      crop_height == box_data.height
      left == Max(0, crop_x)
      top == Max(0, crop_y)
      right == Min(img.size[1], crop_x + crop_width)
      bottom == Min(img.size[2], crop_y + crop_height)
  IN  IF left < right /\ top < bottom
      THEN IF img.readable
           THEN [ size |-> << crop_width, crop_height >>,
                  pasted |-> [section |-> << left, top, right, bottom >>,
                              at |-> << left - crop_x, top - crop_y >>] ]
           ELSE [raises |-> "OSError"]
      ELSE [size |-> << crop_width, crop_height >>, pasted |-> None]

\* the directory entry of a file, os.path.exists and Image.open
SourceFiles(folder, filename) ==
  {i \in 1..Len(Listing(folder)) : Listing(folder)[i].name = filename}

SourceExists(folder, filename) == SourceFiles(folder, filename) # {}

SourceEntry(folder, filename) ==
  Listing(folder)[CHOOSE i \in SourceFiles(folder, filename) : TRUE]

\* the image Image.open returns: its size now, its pixels when they are read
OpenImage(entry) == [size |-> entry.size, readable |-> entry.preview # None]

\* one "if '<key>' in crop_info: extract, save" step of _export_image.  The
\* output path is the filename with the tag before its extension.  state is
\* the output folder and whether an exception has left the try block.
ExportBox(state, img, filename, crop_info, key, tag) ==
  IF state.raised \/ ~Has(crop_info, key) THEN state
  ELSE LET image == _extract_crop_with_padding(img, crop_info[key])
       IN  IF Has(image, "raises")
           THEN [state EXCEPT !.raised = TRUE]
           ELSE [state EXCEPT !.out = Put(state.out, << filename, tag >>, image)]

\* ImageExporter._export_image: a missing source returns, an exception is
\* caught and printed; either way what was saved before stays
_export_image(source_folder, out, filename, crop_info) ==
  IF ~SourceExists(source_folder, filename) THEN out
  ELSE IF SourceEntry(source_folder, filename).size = None THEN out
  ELSE LET img == OpenImage(SourceEntry(source_folder, filename))
           start == [out |-> out, raised |-> FALSE]
       IN  IF Get(crop_info, "is_double_page", FALSE)
           THEN ExportBox(ExportBox(start, img, filename, crop_info, "left_box", "_left"),
                          img, filename, crop_info, "right_box", "_right").out
           ELSE ExportBox(start, img, filename, crop_info, "left_box", "").out

\* whether _export_image returns early or through its except branch
ExportFails(source_folder, filename, crop_info) ==
  \/ ~SourceExists(source_folder, filename)
  \/ SourceEntry(source_folder, filename).size = None
  \/ LET img == OpenImage(SourceEntry(source_folder, filename))
         keys == IF Get(crop_info, "is_double_page", FALSE)
                 THEN {"left_box", "right_box"} ELSE {"left_box"}
     IN  \E key \in keys \cap DOMAIN crop_info :
           Has(_extract_crop_with_padding(img, crop_info[key]), "raises")

\* the loop of export_all over crop_data.items()
RECURSIVE ExportEach(_, _, _, _)
ExportEach(source_folder, out, crop_data, names) ==
  IF names = {} THEN out
  ELSE LET filename == CHOOSE f \in names : TRUE
       IN  ExportEach(source_folder,
                      _export_image(source_folder, out, filename, crop_data[filename]),
                      crop_data, names \ {filename})

\* an export that a failure aborts, the failing file being the first item
ExportAbortingOnFailure(source_folder, out, crop_data) ==
  IF \E f \in DOMAIN crop_data : ExportFails(source_folder, f, crop_data[f])
  THEN out
  ELSE ExportEach(source_folder, out, crop_data, DOMAIN crop_data)

\* ImageExporter.export_all
export_all(source_folder, out, crop_data) ==
  ExportEach(source_folder, out, crop_data, DOMAIN crop_data)

\* ------------------------------------------------------ ScaledImageViewer
\* The viewer after ScaledImageViewer.__init__.  A scale factor w/W is kept
\* as the pair <<w, W>>.  drag_start_pos is not kept: a move event is given
\* by its distance from the previous pointer position.
ViewerInit ==
  [ current_pixmap  |-> None,
    original_size   |-> <<0, 0>>,
    preview_scale_x |-> <<1, 1>>,
    preview_scale_y |-> <<1, 1>>,
    is_double_page  |-> FALSE,
    left_crop_box   |-> None,
    right_crop_box  |-> None,
    dragging        |-> FALSE,
    resizing        |-> FALSE,
    active_box      |-> "none",
    resize_handle   |-> "none" ]

set_image(v, pixmap, original_size, is_double_page) ==
  LET v1 == [v EXCEPT !.current_pixmap = pixmap,
                      !.original_size = original_size,
                      !.is_double_page = is_double_page]
  IN  IF pixmap # None /\ original_size # <<0, 0>>
      THEN [v1 EXCEPT !.preview_scale_x = <<pixmap[1], original_size[1]>>,
                      !.preview_scale_y = <<pixmap[2], original_size[2]>>]
      ELSE v1

set_crop_boxes(v, crop_data) ==
  [v EXCEPT !.left_crop_box =
              IF Has(crop_data, "left_box") THEN from_dict(crop_data.left_box) ELSE None,
            !.right_crop_box =
              IF Has(crop_data, "right_box") /\ v.is_double_page
              THEN from_dict(crop_data.right_box) ELSE None]

BoxOf(v, which) == IF which = "left" THEN v.left_crop_box ELSE v.right_crop_box

\* a drag that moves the active box alone
DragWithoutAligning(v, delta) ==
  IF v.active_box = "none" THEN v
  ELSE
    LET dx == IntDiv(delta[1], v.preview_scale_x)
        dy == IntDiv(delta[2], v.preview_scale_y)
        b  == BoxOf(v, v.active_box)
        nb == [b EXCEPT !.x = b.x + dx, !.y = b.y + dy]
    IN  IF v.active_box = "left"
        THEN [v EXCEPT !.left_crop_box = nb]
        ELSE [v EXCEPT !.right_crop_box = nb]

_handle_drag(v, delta) ==
  IF v.active_box = "none" THEN v
  ELSE
    LET dx == IntDiv(delta[1], v.preview_scale_x)
        dy == IntDiv(delta[2], v.preview_scale_y)
        b  == BoxOf(v, v.active_box)
        nb == [b EXCEPT !.x = b.x + dx, !.y = b.y + dy]
        both == v.is_double_page /\ v.left_crop_box # None /\ v.right_crop_box # None
    IN  IF v.active_box = "left"
        THEN [v EXCEPT !.left_crop_box = nb,
                       !.right_crop_box =
                         IF both THEN [v.right_crop_box EXCEPT !.y = nb.y]
                         ELSE v.right_crop_box]
        ELSE [v EXCEPT !.right_crop_box = nb,
                       !.left_crop_box =
                         IF both THEN [v.left_crop_box EXCEPT !.y = nb.y]
                         ELSE v.left_crop_box]

HasTop(h) == h \in {"top_left", "top_right"}
HasBottom(h) == h \in {"bottom_left", "bottom_right"}
HasLeft(h) == h \in {"top_left", "bottom_left"}
HasRight(h) == h \in {"top_right", "bottom_right"}

\* a resize that follows the pointer without the 50 px minimum
ResizeWithoutMinimum(v, image_point) ==
  IF v.active_box = "none" \/ v.resize_handle = "none" THEN v
  ELSE
    LET px == IntDiv(image_point[1], v.preview_scale_x)
        py == IntDiv(image_point[2], v.preview_scale_y)
        b  == BoxOf(v, v.active_box)
        h  == v.resize_handle
        top    == IF HasTop(h) THEN py ELSE b.y
        bottom == IF HasBottom(h) THEN py ELSE b.y + b.height
        left   == IF HasLeft(h) THEN px ELSE b.x
        right  == IF HasRight(h) THEN px ELSE b.x + b.width
        nb == [x |-> left, y |-> top, width |-> right - left, height |-> bottom - top]
    IN  IF v.active_box = "left"
        THEN [v EXCEPT !.left_crop_box = nb]
        ELSE [v EXCEPT !.right_crop_box = nb]

\* image_point is the pointer position less the image offset
_handle_resize(v, image_point) ==
  IF v.active_box = "none" \/ v.resize_handle = "none" THEN v
  ELSE
    LET px == IntDiv(image_point[1], v.preview_scale_x)
        py == IntDiv(image_point[2], v.preview_scale_y)
        b  == BoxOf(v, v.active_box)
        h  == v.resize_handle
        left0   == b.x
        top0    == b.y
        right0  == b.x + b.width
        bottom0 == b.y + b.height
        top    == IF HasTop(h) THEN Min(py, bottom0 - MinBoxSize) ELSE top0
        bottom == IF ~HasTop(h) /\ HasBottom(h) THEN Max(py, top0 + MinBoxSize) ELSE bottom0
        left   == IF HasLeft(h) THEN Min(px, right0 - MinBoxSize) ELSE left0
        right  == IF ~HasLeft(h) /\ HasRight(h) THEN Max(px, left0 + MinBoxSize) ELSE right0
        nb == [x |-> left, y |-> top, width |-> right - left, height |-> bottom - top]
        both == v.is_double_page /\ v.left_crop_box # None /\ v.right_crop_box # None
        sync(o) == [o EXCEPT !.width = nb.width, !.height = nb.height, !.y = nb.y]
    IN  IF v.active_box = "left"
        THEN [v EXCEPT !.left_crop_box = nb,
                       !.right_crop_box = IF both THEN sync(v.right_crop_box)
                                          ELSE v.right_crop_box]
        ELSE [v EXCEPT !.right_crop_box = nb,
                       !.left_crop_box = IF both THEN sync(v.left_crop_box)
                                         ELSE v.left_crop_box]

\* the dict the viewer emits with crop_changed
_emit_crop_changed(v) ==
  LET base == [is_double_page |-> v.is_double_page]
      l == IF v.left_crop_box # None THEN Put(base, "left_box", to_dict(v.left_crop_box))
           ELSE base
  IN  IF v.right_crop_box # None THEN Put(l, "right_box", to_dict(v.right_crop_box))
      ELSE l

\* What a left-button press can hit: a resize handle of a box the viewer
\* holds (the left box is tested first), else the body of a box, else
\* nothing.  The pointer position is abstracted to the outcome of the hit
\* test.
Hits(v) ==
  {[kind |-> "handle", box |-> b, handle |-> h] :
     b \in {w \in {"left", "right"} : BoxOf(v, w) # None},
     h \in {"top_left", "top_right", "bottom_left", "bottom_right"}}
  \cup {[kind |-> "body", box |-> b, handle |-> "none"] :
     b \in {w \in {"left", "right"} : BoxOf(v, w) # None}}
  \cup {[kind |-> "miss", box |-> "none", handle |-> "none"]}

mousePressEvent(v, hit) ==
  IF hit.kind = "handle"
  THEN [v EXCEPT !.active_box = hit.box, !.resize_handle = hit.handle, !.resizing = TRUE]
  ELSE IF hit.kind = "body"
  THEN [v EXCEPT !.active_box = hit.box, !.resize_handle = "none", !.dragging = TRUE]
  ELSE [v EXCEPT !.active_box = "none", !.resize_handle = "none"]

\* mouseMoveEvent with the pointer moved by delta to image_point
mouseMoveEvent(v, delta, image_point) ==
  IF v.dragging /\ v.active_box # "none" THEN _handle_drag(v, delta)
  ELSE IF v.resizing /\ v.active_box # "none" THEN _handle_resize(v, image_point)
  ELSE v

\* the viewer's part of mouseReleaseEvent, before the signal is emitted
mouseReleaseEvent(v) ==
  [v EXCEPT !.dragging = FALSE, !.resizing = FALSE,
            !.active_box = "none", !.resize_handle = "none"]

\* ------------------------------------------------------------ BookCropApp
VARIABLES
  image_loader,             \* "none", or the folder the ImageLoader scanned
  current_image_index,
  crop_data,                \* filename -> {is_double_page, left_box?, right_box?}
  crop_width, crop_height,
  manually_adjusted_pages,  \* set of page indices
  updating_dimensions_from_resize,
  image_modes,              \* filename -> BOOLEAN (TRUE for double page)
  master_single_position, master_left_position, master_right_position,
  width_spinbox, height_spinbox,   \* the values the spin boxes show
  double_page_radio,        \* double_page_radio.isChecked()
  image_viewer,             \* the ScaledImageViewer
  save_crops_button,        \* save_crops_button.isEnabled()
  crashed,                  \* an exception left a slot: PyQt6 aborts the process
  disk,                     \* folder -> its crop_data.json, or None
  lastOp,                   \* the handler that ran last
  nOps,                     \* the counted inputs so far
  returned,                 \* the last call of a helper: arguments and outcome
  output_folder             \* the folder export_all writes to: path -> image

appVars ==
  << image_loader, current_image_index, crop_data, crop_width, crop_height,
     manually_adjusted_pages, updating_dimensions_from_resize, image_modes,
     master_single_position, master_left_position, master_right_position,
     width_spinbox, height_spinbox, double_page_radio, image_viewer,
     save_crops_button, crashed >>

\* what the helpers and the exporter leave behind
callVars == << returned, output_folder >>

vars == << appVars, disk, lastOp, nOps, callVars >>

\* folder_path is set together with image_loader (load_folder)
folder_path == image_loader

\* the application's fields as one record
St ==
  [ image_loader |-> image_loader,
    current_image_index |-> current_image_index,
    crop_data |-> crop_data,
    crop_width |-> crop_width,
    crop_height |-> crop_height,
    manually_adjusted_pages |-> manually_adjusted_pages,
    updating_dimensions_from_resize |-> updating_dimensions_from_resize,
    image_modes |-> image_modes,
    master_single_position |-> master_single_position,
    master_left_position |-> master_left_position,
    master_right_position |-> master_right_position,
    width_spinbox |-> width_spinbox,
    height_spinbox |-> height_spinbox,
    double_page_radio |-> double_page_radio,
    image_viewer |-> image_viewer,
    save_crops_button |-> save_crops_button,
    crashed |-> crashed ]

\* the fields after a handler returned the record s
Becomes(s) ==
  /\ image_loader' = s.image_loader
  /\ current_image_index' = s.current_image_index
  /\ crop_data' = s.crop_data
  /\ crop_width' = s.crop_width
  /\ crop_height' = s.crop_height
  /\ manually_adjusted_pages' = s.manually_adjusted_pages
  /\ updating_dimensions_from_resize' = s.updating_dimensions_from_resize
  /\ image_modes' = s.image_modes
  /\ master_single_position' = s.master_single_position
  /\ master_left_position' = s.master_left_position
  /\ master_right_position' = s.master_right_position
  /\ width_spinbox' = s.width_spinbox
  /\ height_spinbox' = s.height_spinbox
  /\ double_page_radio' = s.double_page_radio
  /\ image_viewer' = s.image_viewer
  /\ save_crops_button' = s.save_crops_button
  /\ crashed' = s.crashed

\* BookCropApp.__init__
AppInit ==
  [ image_loader |-> "none",
    current_image_index |-> 0,
    crop_data |-> <<>>,
    crop_width |-> DefaultCropWidth,
    crop_height |-> DefaultCropHeight,
    manually_adjusted_pages |-> {},
    updating_dimensions_from_resize |-> FALSE,
    image_modes |-> <<>>,
    master_single_position |-> [x |-> 0, y |-> 0],
    master_left_position |-> [x |-> 0, y |-> 0],
    master_right_position |-> [x |-> 0, y |-> 0],
    width_spinbox |-> DefaultCropWidth,
    height_spinbox |-> DefaultCropHeight,
    double_page_radio |-> FALSE,
    image_viewer |-> ViewerInit,
    save_crops_button |-> FALSE,
    crashed |-> FALSE ]

\* the mode _create_crop_boxes_for_image and update_image_display give a file
EffectiveMode(s, filename) == Get(s.image_modes, filename, s.double_page_radio)

\* Python's int(a / 2): the quotient rounded toward zero
TruncHalf(a) == IF a >= 0 THEN a \div 2 ELSE -((-a) \div 2)

\* a placement that rounds the single-page centre toward zero
CreateRoundingTowardZero(s, image_size, page_index) ==
  IF EffectiveMode(s, FileAt(s.image_loader, page_index))
  THEN [ is_double_page |-> TRUE,
         left_box |->
           [ x |-> image_size[1] \div 4 - s.crop_width \div 2 + s.master_left_position.x,
             y |-> (image_size[2] - s.crop_height) \div 2 + s.master_left_position.y,
             width |-> s.crop_width, height |-> s.crop_height ],
         right_box |->
           [ x |-> (image_size[1] * 3) \div 4 - s.crop_width \div 2
                     + s.master_right_position.x,
             y |-> (image_size[2] - s.crop_height) \div 2 + s.master_left_position.y,
             width |-> s.crop_width, height |-> s.crop_height ] ]
  ELSE [ is_double_page |-> FALSE,
         left_box |->
           [ x |-> TruncHalf(image_size[1] - s.crop_width) + s.master_single_position.x,
             y |-> TruncHalf(image_size[2] - s.crop_height) + s.master_single_position.y,
             width |-> s.crop_width, height |-> s.crop_height ] ]

\* a placement whose right box takes its y from master_right_position
CreateWithRightMasterY(s, image_size, page_index) ==
  IF EffectiveMode(s, FileAt(s.image_loader, page_index))
  THEN [ is_double_page |-> TRUE,
         left_box |->
           [ x |-> image_size[1] \div 4 - s.crop_width \div 2 + s.master_left_position.x,
             y |-> (image_size[2] - s.crop_height) \div 2 + s.master_left_position.y,
             width |-> s.crop_width, height |-> s.crop_height ],
         right_box |->
           [ x |-> (image_size[1] * 3) \div 4 - s.crop_width \div 2
                     + s.master_right_position.x,
             y |-> (image_size[2] - s.crop_height) \div 2 + s.master_right_position.y,
             width |-> s.crop_width, height |-> s.crop_height ] ]
  ELSE [ is_double_page |-> FALSE,
         left_box |->
           [ x |-> (image_size[1] - s.crop_width) \div 2 + s.master_single_position.x,
             y |-> (image_size[2] - s.crop_height) \div 2 + s.master_single_position.y,
             width |-> s.crop_width, height |-> s.crop_height ] ]

_create_crop_boxes_for_image(s, image_size, page_index) ==
  LET filename == FileAt(s.image_loader, page_index)
      is_double_page == EffectiveMode(s, filename)
  IN  IF is_double_page
      THEN LET quarter_point == image_size[1] \div 4
               three_quarter_point == (image_size[1] * 3) \div 4
               left_x == quarter_point - (s.crop_width \div 2) + s.master_left_position.x
               left_y == (image_size[2] - s.crop_height) \div 2 + s.master_left_position.y
               right_x == three_quarter_point - (s.crop_width \div 2)
                            + s.master_right_position.x
               right_y == left_y
           IN  [ is_double_page |-> TRUE,
                 left_box  |-> [x |-> left_x, y |-> left_y,
                                width |-> s.crop_width, height |-> s.crop_height],
                 right_box |-> [x |-> right_x, y |-> right_y,
                                width |-> s.crop_width, height |-> s.crop_height] ]
      ELSE LET center_x == (image_size[1] - s.crop_width) \div 2 + s.master_single_position.x
               center_y == (image_size[2] - s.crop_height) \div 2 + s.master_single_position.y
           IN  [ is_double_page |-> FALSE,
                 left_box |-> [x |-> center_x, y |-> center_y,
                               width |-> s.crop_width, height |-> s.crop_height] ]

RECURSIVE ApplyModeFrom(_, _, _)
ApplyModeFrom(s, i, is_double_page) ==
  IF i >= NumFiles(s.image_loader) THEN s
  ELSE IF i \notin s.manually_adjusted_pages
       THEN ApplyModeFrom(
              [s EXCEPT !.image_modes = Put(@, FileAt(s.image_loader, i), is_double_page)],
              i + 1, is_double_page)
       ELSE ApplyModeFrom(s, i + 1, is_double_page)

_apply_mode_to_subsequent_pages(s, is_double_page) ==
  ApplyModeFrom(s, s.current_image_index + 1, is_double_page)

RECURSIVE InitializeFrom(_, _)
InitializeFrom(s, i) ==
  IF i >= NumFiles(s.image_loader) THEN s
  ELSE LET filename == FileAt(s.image_loader, i)
           original_size == get_original_size(s.image_loader, filename)
       IN  IF original_size # <<0, 0>>
           THEN InitializeFrom(
                  [s EXCEPT !.crop_data =
                     Put(@, filename, _create_crop_boxes_for_image(s, original_size, i))],
                  i + 1)
           ELSE InitializeFrom(s, i + 1)

_initialize_all_crop_boxes(s) == InitializeFrom(s, 0)

\* master positions that record the box's position instead of its offset from
\* the default position
MasterAsAbsolutePosition(s, crop_info, filename) ==
  IF Has(crop_info, "left_box")
  THEN [s EXCEPT !.master_single_position =
                   [x |-> crop_info.left_box.x, y |-> crop_info.left_box.y]]
  ELSE s

_update_master_positions(s, crop_info, filename) ==
  LET original_size == get_original_size(s.image_loader, filename)
      is_double_page == Get(crop_info, "is_double_page", FALSE)
  IN  IF original_size = <<0, 0>> THEN s
      ELSE IF is_double_page
      THEN LET s1 ==
                 IF Has(crop_info, "left_box")
                 THEN LET left_box == crop_info.left_box
                          quarter_point == original_size[1] \div 4
                          default_left_x == quarter_point - (s.crop_width \div 2)
                          default_left_y == (original_size[2] - s.crop_height) \div 2
                      IN  [s EXCEPT !.master_left_position =
                                      [x |-> left_box.x - default_left_x,
                                       y |-> left_box.y - default_left_y]]
                 ELSE s
           IN  IF Has(crop_info, "right_box")
               THEN LET right_box == crop_info.right_box
                        three_quarter_point == (original_size[1] * 3) \div 4
                        default_right_x == three_quarter_point - (s.crop_width \div 2)
                    IN  [s1 EXCEPT !.master_right_position.x = right_box.x - default_right_x]
               ELSE s1
      ELSE IF Has(crop_info, "left_box")
           THEN LET single_box == crop_info.left_box
                    default_center_x == (original_size[1] - s.crop_width) \div 2
                    default_center_y == (original_size[2] - s.crop_height) \div 2
                IN  [s EXCEPT !.master_single_position =
                                [x |-> single_box.x - default_center_x,
                                 y |-> single_box.y - default_center_y]]
           ELSE s

RECURSIVE ApplyFrom(_, _)
ApplyFrom(s, i) ==
  IF i >= NumFiles(s.image_loader) THEN s
  ELSE IF i \notin s.manually_adjusted_pages
       THEN LET filename == FileAt(s.image_loader, i)
                original_size == get_original_size(s.image_loader, filename)
            IN  IF original_size # <<0, 0>>
                THEN ApplyFrom(
                       [s EXCEPT !.crop_data =
                          Put(@, filename, _create_crop_boxes_for_image(s, original_size, i))],
                       i + 1)
                ELSE ApplyFrom(s, i + 1)
       ELSE ApplyFrom(s, i + 1)

\* a propagation that starts at the first page instead of the page after the
\* current one
ApplyFromFirstPage(s) == ApplyFrom(s, 0)

\* a propagation that stops at the first manually adjusted page
RECURSIVE ApplyUntilAdjusted(_, _)
ApplyUntilAdjusted(s, i) ==
  IF i >= NumFiles(s.image_loader) \/ i \in s.manually_adjusted_pages THEN s
  ELSE LET filename == FileAt(s.image_loader, i)
           original_size == get_original_size(s.image_loader, filename)
       IN  IF original_size # <<0, 0>>
           THEN ApplyUntilAdjusted(
                  [s EXCEPT !.crop_data =
                     Put(@, filename, _create_crop_boxes_for_image(s, original_size, i))],
                  i + 1)
           ELSE ApplyUntilAdjusted(s, i + 1)

ApplyStoppingAtAdjusted(s) == ApplyUntilAdjusted(s, s.current_image_index + 1)

\* a propagation that does not look at manually_adjusted_pages
RECURSIVE ApplyToEvery(_, _)
ApplyToEvery(s, i) ==
  IF i >= NumFiles(s.image_loader) THEN s
  ELSE LET filename == FileAt(s.image_loader, i)
           original_size == get_original_size(s.image_loader, filename)
       IN  IF original_size # <<0, 0>>
           THEN ApplyToEvery(
                  [s EXCEPT !.crop_data =
                     Put(@, filename, _create_crop_boxes_for_image(s, original_size, i))],
                  i + 1)
           ELSE ApplyToEvery(s, i + 1)

ApplyIgnoringAdjusted(s) == ApplyToEvery(s, s.current_image_index + 1)

_apply_to_subsequent_pages(s) == ApplyFrom(s, s.current_image_index + 1)

update_image_display(s) ==
  IF s.image_loader = "none" \/ NumFiles(s.image_loader) = 0 THEN s
  ELSE IF s.current_image_index >= NumFiles(s.image_loader)
  THEN [s EXCEPT !.crashed = TRUE]
  ELSE
    LET current_file == FileAt(s.image_loader, s.current_image_index)
        pixmap == get_preview(s.image_loader, current_file)
    IN  IF pixmap = None THEN s
        ELSE LET original_size == get_original_size(s.image_loader, current_file)
                 is_double_page == EffectiveMode(s, current_file)
                 v1 == set_image(s.image_viewer, pixmap, original_size, is_double_page)
                 v2 == IF Has(s.crop_data, current_file)
                          /\ DOMAIN s.crop_data[current_file] # {}
                       THEN set_crop_boxes(v1, s.crop_data[current_file])
                       ELSE v1
             IN  [s EXCEPT !.double_page_radio = is_double_page,
                           !.image_viewer = v2]

CurrentFile(s) == FileAt(s.image_loader, s.current_image_index)

\* on_mode_changed, lines 319-323: the mode is stored for this image and
\* pushed onto the subsequent unadjusted pages
StoreMode(s) ==
  _apply_mode_to_subsequent_pages(
    [s EXCEPT !.image_modes = Put(@, CurrentFile(s), s.double_page_radio)],
    s.double_page_radio)

\* a recreation that makes the current page the only marked one
RecreateCurrentAsOnlyMarked(s) ==
  [s EXCEPT !.crop_data =
              Put(@, FileAt(s.image_loader, s.current_image_index),
                  _create_crop_boxes_for_image(
                    s, get_original_size(s.image_loader,
                                         FileAt(s.image_loader, s.current_image_index)),
                    s.current_image_index)),
            !.manually_adjusted_pages = {s.current_image_index}]

\* on_mode_changed, lines 325-331: the current image's boxes are recreated
\* and the page is marked
RecreateCurrent(s) ==
  [s EXCEPT !.crop_data =
              Put(@, CurrentFile(s),
                  _create_crop_boxes_for_image(
                    s, get_original_size(s.image_loader, CurrentFile(s)),
                    s.current_image_index)),
            !.manually_adjusted_pages = @ \cup {s.current_image_index}]

\* _update_master_positions called with the data just stored for the
\* current file
UpdateMasterFromCurrent(s) ==
  _update_master_positions(s, s.crop_data[CurrentFile(s)], CurrentFile(s))

\* the slot of single_page_radio.toggled, run after the radio changed
on_mode_changed(s) ==
  IF s.image_loader = "none" THEN s
  ELSE IF s.current_image_index >= NumFiles(s.image_loader)
  THEN [s EXCEPT !.crashed = TRUE]
  ELSE update_image_display(
         _apply_to_subsequent_pages(
           UpdateMasterFromCurrent(RecreateCurrent(StoreMode(s)))))

\* a box edit that leaves the global dimensions as they were
DimensionsKept(s, crop_info) == s

\* on_crop_changed, lines 347-357: the global dimensions follow the left box;
\* the spin boxes are set with their signals blocked
DimensionsFromBox(s, crop_info) ==
  IF Has(crop_info, "left_box")
  THEN [s EXCEPT !.crop_width = crop_info.left_box.width,
                 !.crop_height = crop_info.left_box.height,
                 !.width_spinbox = Clamp(crop_info.left_box.width),
                 !.height_spinbox = Clamp(crop_info.left_box.height)]
  ELSE s

\* on_crop_changed, lines 359-363: the data is stored and the page marked
StoreCurrent(s, crop_info) ==
  [s EXCEPT !.crop_data = Put(@, CurrentFile(s), crop_info),
            !.manually_adjusted_pages = @ \cup {s.current_image_index}]

\* the slot of image_viewer.crop_changed
on_crop_changed(s, crop_info) ==
  IF s.image_loader = "none" THEN s
  ELSE IF s.current_image_index >= NumFiles(s.image_loader)
  THEN [s EXCEPT !.crashed = TRUE]
  ELSE _apply_to_subsequent_pages(
         UpdateMasterFromCurrent(
           StoreCurrent(DimensionsFromBox(s, crop_info), crop_info)))

RECURSIVE UpdateDimensionsFrom(_, _)
UpdateDimensionsFrom(s, i) ==
  IF i >= NumFiles(s.image_loader) THEN s
  ELSE LET filename == FileAt(s.image_loader, i)
       IN  IF Has(s.crop_data, filename)
           THEN LET e  == s.crop_data[filename]
                    e1 == IF Has(e, "left_box")
                          THEN [e EXCEPT !.left_box.width = s.crop_width,
                                         !.left_box.height = s.crop_height]
                          ELSE e
                    e2 == IF Has(e1, "right_box")
                          THEN [e1 EXCEPT !.right_box.width = s.crop_width,
                                          !.right_box.height = s.crop_height]
                          ELSE e1
                IN  UpdateDimensionsFrom([s EXCEPT !.crop_data[filename] = e2], i + 1)
           ELSE UpdateDimensionsFrom(s, i + 1)

\* an update that resizes the left boxes alone
RECURSIVE UpdateLeftFrom(_, _)
UpdateLeftFrom(s, i) ==
  IF i >= NumFiles(s.image_loader) THEN s
  ELSE LET filename == FileAt(s.image_loader, i)
       IN  IF Has(s.crop_data, filename) /\ Has(s.crop_data[filename], "left_box")
           THEN UpdateLeftFrom(
                  [s EXCEPT !.crop_data[filename].left_box.width = s.crop_width,
                            !.crop_data[filename].left_box.height = s.crop_height],
                  i + 1)
           ELSE UpdateLeftFrom(s, i + 1)

UpdateLeftBoxesOnly(s) == UpdateLeftFrom(s, 0)

_update_all_crop_dimensions(s) == UpdateDimensionsFrom(s, 0)

\* the slot of both spin boxes' valueChanged, run after the spin box changed
on_crop_dimensions_changed(s) ==
  IF s.updating_dimensions_from_resize THEN s
  ELSE IF s.image_loader # "none" /\ NumFiles(s.image_loader) > 0
  THEN update_image_display(
         _update_all_crop_dimensions(
           [s EXCEPT !.crop_width = s.width_spinbox, !.crop_height = s.height_spinbox]))
  ELSE [s EXCEPT !.crop_width = s.width_spinbox, !.crop_height = s.height_spinbox]

\* ------------------------------------------------------------ persistence
\* list(set) and set(list) of the page indices, through the JSON array
RECURSIVE SetToList(_)
SetToList(S) ==
  IF S = {} THEN <<>>
  ELSE LET m == CHOOSE a \in S : \A b \in S : a <= b
       IN  <<m>> \o SetToList(S \ {m})

ListToSet(l) == {l[i] : i \in 1..Len(l)}

\* a document that saves manually_adjusted_pages as an empty list
SaveWithoutAdjusted(s) ==
  Put(s.crop_data, "_settings",
      [ crop_width |-> s.crop_width,
        crop_height |-> s.crop_height,
        is_double_page |-> s.double_page_radio,
        manually_adjusted_pages |-> <<>>,
        image_modes |-> s.image_modes,
        master_positions |-> [ single |-> s.master_single_position,
                               left   |-> s.master_left_position,
                               right  |-> s.master_right_position ] ])

\* the document save_crop_data writes: the crop data plus the _settings record
SaveData(s) ==
  Put(s.crop_data, "_settings",
      [ crop_width |-> s.crop_width,
        crop_height |-> s.crop_height,
        is_double_page |-> s.double_page_radio,
        manually_adjusted_pages |-> SetToList(s.manually_adjusted_pages),
        image_modes |-> s.image_modes,
        master_positions |-> [ single |-> s.master_single_position,
                               left   |-> s.master_left_position,
                               right  |-> s.master_right_position ] ])

\* a save that adds _settings to the session's dict instead of to a copy
SaveIntoSession(s) ==
  [ app |-> [s EXCEPT !.crop_data = SaveData(s)], file |-> SaveData(s) ]

\* save_crop_data: save_data is self.crop_data.copy(), _settings is added to
\* the copy and the copy is dumped; app is the session afterwards, file the
\* content of crop_data.json
save_crop_data(s) ==
  [ app |-> s, file |-> SaveData(s) ]

\* QSpinBox.setValue with signals connected: the slot runs when the value shown
\* changes
SetWidthSpinbox(s, v) ==
  IF Clamp(v) = s.width_spinbox THEN s
  ELSE on_crop_dimensions_changed([s EXCEPT !.width_spinbox = Clamp(v)])

SetHeightSpinbox(s, v) ==
  IF Clamp(v) = s.height_spinbox THEN s
  ELSE on_crop_dimensions_changed([s EXCEPT !.height_spinbox = Clamp(v)])

\* double_page_radio.setChecked(b); single_page_radio.setChecked(not b) with
\* signals connected: single_page_radio.toggled fires once when the pair changes
SetModeRadios(s, is_double_page) ==
  IF s.double_page_radio = is_double_page THEN s
  ELSE on_mode_changed([s EXCEPT !.double_page_radio = is_double_page])

\* a crop_data.json that json.load cannot parse
InvalidJson == [invalid_json |-> TRUE]

\* a JSON number where save_crop_data writes the list of adjusted pages:
\* set(number) raises TypeError
JsonNumber == [json_number |-> 5]
IsJsonNumber(value) == ToString(value) = ToString(JsonNumber)

\* load_crop_data, lines 191-218: each field of _settings that is present
\* is restored; an exception ends the restoring (crashed marks it)
RestoreWidth(s, settings) ==
  IF Has(settings, "crop_width")
  THEN SetWidthSpinbox([s EXCEPT !.crop_width = settings.crop_width], settings.crop_width)
  ELSE s

RestoreHeight(s, settings) ==
  IF ~s.crashed /\ Has(settings, "crop_height")
  THEN SetHeightSpinbox([s EXCEPT !.crop_height = settings.crop_height],
                        settings.crop_height)
  ELSE s

RestoreMode(s, settings) ==
  IF ~s.crashed /\ Has(settings, "is_double_page")
  THEN SetModeRadios(s, settings.is_double_page)
  ELSE s

RestoreAdjusted(s, settings) ==
  IF ~s.crashed /\ Has(settings, "manually_adjusted_pages")
  THEN IF IsJsonNumber(settings.manually_adjusted_pages)
       THEN [s EXCEPT !.crashed = TRUE]
       ELSE [s EXCEPT !.manually_adjusted_pages =
                        ListToSet(settings.manually_adjusted_pages)]
  ELSE s

RestoreImageModes(s, settings) ==
  IF ~s.crashed /\ Has(settings, "image_modes")
  THEN [s EXCEPT !.image_modes = settings.image_modes]
  ELSE s

RestoreMasters(s, settings) ==
  IF ~s.crashed /\ Has(settings, "master_positions")
  THEN [s EXCEPT
          !.master_single_position =
             Get(settings.master_positions, "single", [x |-> 0, y |-> 0]),
          !.master_left_position =
             Get(settings.master_positions, "left", [x |-> 0, y |-> 0]),
          !.master_right_position =
             Get(settings.master_positions, "right", [x |-> 0, y |-> 0])]
  ELSE s

RestoreSettings(s, settings) ==
  RestoreMasters(
    RestoreImageModes(
      RestoreAdjusted(
        RestoreMode(
          RestoreHeight(RestoreWidth(s, settings), settings),
          settings),
        settings),
      settings),
    settings)

\* an exception handler that leaves the crop data as it was
SetCropDataKeeping(s, doc) ==
  IF s.crashed
  THEN [s EXCEPT !.crashed = FALSE]
  ELSE [s EXCEPT !.crop_data = [f \in DOMAIN doc \ {"_settings"} |-> doc[f]]]

\* load_crop_data, lines 220-228: the rest of the document becomes the crop
\* data; after an exception the crop data is empty
SetCropData(s, doc) ==
  IF s.crashed
  THEN [s EXCEPT !.crashed = FALSE, !.crop_data = <<>>]
  ELSE [s EXCEPT !.crop_data = [f \in DOMAIN doc \ {"_settings"} |-> doc[f]]]

\* doc is the content of the folder's crop_data.json, or None when there is
\* none
load_crop_data(s, doc) ==
  IF doc = None THEN [s EXCEPT !.crop_data = <<>>]
  ELSE IF doc = InvalidJson THEN [s EXCEPT !.crop_data = <<>>]
  ELSE IF Has(doc, "_settings")
  THEN SetCropData(RestoreSettings(s, doc["_settings"]), doc)
  ELSE [s EXCEPT !.crop_data = doc]

\* load_folder, lines 170-172
InitializeIfEmpty(s) ==
  IF DOMAIN s.crop_data = {} THEN _initialize_all_crop_boxes(s) ELSE s

EnableButtons(s) == [s EXCEPT !.save_crops_button = TRUE]

load_folder(s, folder, doc) ==
  IF NumFiles(folder) = 0 THEN [s EXCEPT !.image_loader = folder]
  ELSE EnableButtons(
         update_image_display(
           InitializeIfEmpty(
             load_crop_data(
               [s EXCEPT !.image_loader = folder, !.current_image_index = 0], doc))))

prev_image(s) ==
  IF s.current_image_index > 0
  THEN update_image_display([s EXCEPT !.current_image_index = @ - 1])
  ELSE s

next_image(s) ==
  IF s.current_image_index < NumFiles(s.image_loader) - 1
  THEN update_image_display([s EXCEPT !.current_image_index = @ + 1])
  ELSE s

\* ---------------------------------------------------------------- inputs
\* pointer movements of a drag, in preview pixels
DragDeltas == {<<8, 0>>, <<-3, 5>>}
\* pointer position of a resize, in preview pixels from the image's corner
ResizePoints == {<<30, 40>>}
\* value typed into a dimension spin box
SpinValues == {900}

\* ---------------------------------------------------------------- actions
\* While the left button is held the viewer has grabbed the mouse: the other
\* widgets get no clicks until the release.
Idle == ~image_viewer.dragging /\ ~image_viewer.resizing

\* open_folder / dropEvent
LoadFolder ==
  /\ ~crashed /\ Idle /\ nOps < MaxOps
  /\ \E folder \in Folders : Becomes(load_folder(St, folder, disk[folder]))
  /\ lastOp' = "load_folder"
  /\ nOps' = nOps + 1
  /\ UNCHANGED << disk, callVars >>

SaveCropData ==
  /\ ~crashed /\ Idle /\ save_crops_button /\ nOps < MaxOps
  /\ folder_path # "none"
  /\ Becomes(save_crop_data(St).app)
  /\ disk' = [disk EXCEPT ![folder_path] = save_crop_data(St).file]
  /\ lastOp' = "save_crop_data"
  /\ nOps' = nOps + 1
  /\ UNCHANGED callVars

\* the Previous button is enabled while current_image_index > 0
PrevImage ==
  /\ ~crashed /\ Idle
  /\ current_image_index > 0
  /\ Becomes(prev_image(St))
  /\ lastOp' = "prev_image"
  /\ UNCHANGED nOps
  /\ UNCHANGED << disk, callVars >>

\* the Next button is disabled until a folder with images is loaded
NextImage ==
  /\ ~crashed /\ Idle
  /\ image_loader # "none"
  /\ current_image_index < NumFiles(image_loader) - 1
  /\ Becomes(next_image(St))
  /\ lastOp' = "next_image"
  /\ UNCHANGED nOps
  /\ UNCHANGED << disk, callVars >>

\* a click on the radio button that is not checked
ModeToggle ==
  /\ ~crashed /\ Idle /\ nOps < MaxOps
  /\ Becomes(on_mode_changed([St EXCEPT !.double_page_radio = ~double_page_radio]))
  /\ lastOp' = "on_mode_changed"
  /\ nOps' = nOps + 1
  /\ UNCHANGED << disk, callVars >>

\* an edit of the width or of the height spin box
DimensionsEdit ==
  /\ ~crashed /\ Idle /\ nOps < MaxOps
  /\ \E v \in SpinValues :
       \/ /\ v # width_spinbox
          /\ Becomes(on_crop_dimensions_changed([St EXCEPT !.width_spinbox = v]))
       \/ /\ v # height_spinbox
          /\ Becomes(on_crop_dimensions_changed([St EXCEPT !.height_spinbox = v]))
  /\ lastOp' = "on_crop_dimensions_changed"
  /\ nOps' = nOps + 1
  /\ UNCHANGED << disk, callVars >>

MousePress ==
  /\ ~crashed /\ Idle
  /\ \E hit \in Hits(image_viewer) :
       Becomes([St EXCEPT !.image_viewer = mousePressEvent(image_viewer, hit)])
  /\ lastOp' = "mousePressEvent"
  /\ UNCHANGED nOps
  /\ UNCHANGED << disk, callVars >>

MouseMove ==
  /\ ~crashed /\ ~Idle /\ nOps < MaxOps
  /\ \E delta \in DragDeltas, image_point \in ResizePoints :
       Becomes([St EXCEPT !.image_viewer = mouseMoveEvent(image_viewer, delta, image_point)])
  /\ lastOp' = "mouseMoveEvent"
  /\ nOps' = nOps + 1
  /\ UNCHANGED << disk, callVars >>

\* mouseReleaseEvent: the viewer emits crop_changed, on_crop_changed runs
MouseRelease ==
  /\ ~crashed /\ nOps < MaxOps
  /\ Becomes(on_crop_changed([St EXCEPT !.image_viewer = mouseReleaseEvent(image_viewer)],
                             _emit_crop_changed(image_viewer)))
  /\ lastOp' = "on_crop_changed"
  /\ nOps' = nOps + 1
  /\ UNCHANGED << disk, callVars >>

Init ==
  /\ image_loader = AppInit.image_loader
  /\ current_image_index = AppInit.current_image_index
  /\ crop_data = AppInit.crop_data
  /\ crop_width = AppInit.crop_width
  /\ crop_height = AppInit.crop_height
  /\ manually_adjusted_pages = AppInit.manually_adjusted_pages
  /\ updating_dimensions_from_resize = AppInit.updating_dimensions_from_resize
  /\ image_modes = AppInit.image_modes
  /\ master_single_position = AppInit.master_single_position
  /\ master_left_position = AppInit.master_left_position
  /\ master_right_position = AppInit.master_right_position
  /\ width_spinbox = AppInit.width_spinbox
  /\ height_spinbox = AppInit.height_spinbox
  /\ double_page_radio = AppInit.double_page_radio
  /\ image_viewer = AppInit.image_viewer
  /\ save_crops_button = AppInit.save_crops_button
  /\ crashed = AppInit.crashed
  /\ disk = [f \in Folders |-> None]
  /\ lastOp = "init"
  /\ nOps = 0
  /\ returned = None
  /\ output_folder = << >>

Next ==
  \/ LoadFolder
  \/ SaveCropData
  \/ PrevImage
  \/ NextImage
  \/ ModeToggle
  \/ DimensionsEdit
  \/ MousePress
  \/ MouseMove
  \/ MouseRelease

Spec == Init /\ [][Next]_vars

\* ------------------------------------------------------- resize gestures
\* pointer positions of a resize, in preview pixels from the image's corner:
\* outside the image on either side, inside the box, between box and border
WidePoints == { <<px, py>> : px \in {-20, 30, 230, 500}, py \in {-20, 40, 330, 700} }

\* the sessions a resize starts in: folder A or B just opened, or folder A
\* switched to double-page mode
ResizeStarts ==
  { load_folder(AppInit, "A", None),
    load_folder(AppInit, "B", None),
    on_mode_changed([load_folder(AppInit, "A", None) EXCEPT !.double_page_radio = TRUE]) }

\* the fields are those of the record s
InState(s) ==
  /\ image_loader = s.image_loader
  /\ current_image_index = s.current_image_index
  /\ crop_data = s.crop_data
  /\ crop_width = s.crop_width
  /\ crop_height = s.crop_height
  /\ manually_adjusted_pages = s.manually_adjusted_pages
  /\ updating_dimensions_from_resize = s.updating_dimensions_from_resize
  /\ image_modes = s.image_modes
  /\ master_single_position = s.master_single_position
  /\ master_left_position = s.master_left_position
  /\ master_right_position = s.master_right_position
  /\ width_spinbox = s.width_spinbox
  /\ height_spinbox = s.height_spinbox
  /\ double_page_radio = s.double_page_radio
  /\ image_viewer = s.image_viewer
  /\ save_crops_button = s.save_crops_button
  /\ crashed = s.crashed

InitResize ==
  /\ \E s \in ResizeStarts : InState(s)
  /\ disk = [f \in Folders |-> None]
  /\ lastOp = "init"
  /\ nOps = 0
  /\ returned = None
  /\ output_folder = << >>

\* mouseMoveEvent while a handle is held, the pointer anywhere
ResizeMove ==
  /\ ~crashed /\ image_viewer.resizing
  /\ \E image_point \in WidePoints :
       Becomes([St EXCEPT !.image_viewer = _handle_resize(image_viewer, image_point)])
  /\ lastOp' = "_handle_resize"
  /\ UNCHANGED nOps
  /\ UNCHANGED << disk, callVars >>

NextResize ==
  \/ MousePress
  \/ ResizeMove

SpecResize == InitResize /\ [][NextResize]_vars

\* ------------------------------------------------------ default placement
\* crop dimensions set in the spin boxes before a folder is opened
PlaceDims == {100, 800, 1201, 5000}

\* image sizes given to the placement besides those of the folders' images
PlaceSizes == { <<W, H>> : W \in {1, 999, 1000, 5001}, H \in {1, 1200, 1501} }

InitPlace ==
  /\ \E w \in PlaceDims, h \in PlaceDims :
       InState([AppInit EXCEPT !.crop_width = w, !.width_spinbox = w,
                               !.crop_height = h, !.height_spinbox = h])
  /\ disk = [f \in Folders |-> None]
  /\ lastOp = "init"
  /\ nOps = 0
  /\ returned = None
  /\ output_folder = << >>

NextPlace ==
  \/ LoadFolder
  \/ PrevImage
  \/ NextImage

SpecPlace == InitPlace /\ [][NextPlace]_vars

\* --------------------------------------------------- the geometry helpers
\* preview sizes handed to get_scale_factor: a null pixmap's QSize(0, 0), a
\* pixmap with one empty side, the thumbnails and a full-size pixmap
ScalePreviews == { <<w, h>> : w \in {0, 400, 800, 1000}, h \in {0, 600, 1500} }

\* small images and boxes around them: left of, above, across, inside, past
\* and far from the image
CropImages == { [size |-> <<4, 3>>, readable |-> TRUE], [size |-> <<2, 5>>, readable |-> TRUE] }

CropBoxes ==
  { [x |-> x, y |-> y, width |-> w, height |-> h] :
      x \in {-1000, -2, 0, 1, 3, 5}, y \in {-4, -1, 0, 2, 6}, w \in {1, 3, 6}, h \in {1, 2, 7} }

InitCalls ==
  /\ InState(AppInit)
  /\ disk = [f \in Folders |-> None]
  /\ lastOp = "init"
  /\ nOps = 0
  /\ returned = None
  /\ output_folder = << >>

GetScaleFactor ==
  /\ \E loader \in {"A", "B"}, preview_size \in ScalePreviews :
       \E filename \in ListToSet(image_files(loader)) :
         returned' = [ args |-> << loader, filename, preview_size >>,
                       value |-> get_scale_factor(loader, filename, preview_size) ]
  /\ lastOp' = "get_scale_factor"
  /\ UNCHANGED << appVars, disk, nOps, output_folder >>

ExtractCrop ==
  /\ \E img \in CropImages, box_data \in CropBoxes :
       returned' = [ args |-> << img, box_data >>,
                     value |-> _extract_crop_with_padding(img, box_data) ]
  /\ lastOp' = "_extract_crop_with_padding"
  /\ UNCHANGED << appVars, disk, nOps, output_folder >>

NextCalls ==
  \/ GetScaleFactor
  \/ ExtractCrop

SpecCalls == InitCalls /\ [][NextCalls]_vars

\* --------------------------------------------------- documents on disk
\* A session that was saved: folder A, page 1 switched to double-page mode
\* and its right box dragged.
SavedToggled ==
  on_mode_changed([next_image(load_folder(AppInit, "A", None)) EXCEPT
                     !.double_page_radio = TRUE])

SavedDragged ==
  mouseMoveEvent(
    mousePressEvent(SavedToggled.image_viewer,
                    [kind |-> "body", box |-> "right", handle |-> "none"]),
    <<-3, 5>>, <<30, 40>>)

SavedState ==
  on_crop_changed([SavedToggled EXCEPT !.image_viewer = mouseReleaseEvent(SavedDragged)],
                  _emit_crop_changed(SavedDragged))

\* crop entries written by hand
HandBox == [x |-> 10, y |-> 20, width |-> 800, height |-> 1200]
HandEntries ==
  [f \in {"p1.jpg", "p2.jpg", "p3.jpg"} |-> [is_double_page |-> FALSE, left_box |-> HandBox]]

\* the documents found in folder A: one without _settings, two with some of
\* its fields, one that is not JSON, one with a number for the adjusted
\* pages, and the one save_crop_data wrote for SavedState
DocNoSettings == HandEntries
DocModeOnly == Put(HandEntries, "_settings", [is_double_page |-> TRUE])
DocPartial ==
  Put(HandEntries, "_settings",
      [crop_width |-> 900, master_positions |-> [single |-> [x |-> 5, y |-> 7]]])
DocBadAdjusted ==
  Put(HandEntries, "_settings",
      [crop_width |-> 900, is_double_page |-> TRUE, manually_adjusted_pages |-> JsonNumber])
DocSaved == SaveData(SavedState)

Documents == {DocNoSettings, DocModeOnly, DocPartial, InvalidJson, DocBadAdjusted, DocSaved}

\* The application starts with one of the documents in folder A.  Putting
\* the document there is taken as the first counted input.
InitDoc ==
  /\ InState(AppInit)
  /\ \E doc \in Documents : disk = [f \in Folders |-> IF f = "A" THEN doc ELSE None]
  /\ lastOp = "init"
  /\ nOps = 1
  /\ returned = None
  /\ output_folder = << >>

SpecDoc == InitDoc /\ [][Next]_vars

\* ----------------------------------------------------------------- export
\* crop entries for folder A saved before one of its scans was deleted, and
\* entries for every scan of folder B
GoneEntries ==
  [f \in {"gone.jpg", "p1.jpg", "p2.jpg"} |-> [is_double_page |-> FALSE, left_box |-> HandBox]]

StaleEntries ==
  [f \in {"p1.jpg", "p2.jpg", "p3.jpg"} |->
     [is_double_page |-> f = "p1.jpg", left_box |-> HandBox,
      right_box |-> [HandBox EXCEPT !.x = 790]]]

InitExport ==
  /\ InState(AppInit)
  /\ \E a \in {None, GoneEntries}, b \in {None, StaleEntries} :
       disk = [f \in Folders |-> IF f = "A" THEN a ELSE IF f = "B" THEN b ELSE None]
  /\ lastOp = "init"
  /\ nOps = 0
  /\ returned = None
  /\ output_folder = << >>

\* export_images with an output folder chosen in the dialog, the same one
\* every time
ExportImages ==
  /\ ~crashed /\ Idle /\ nOps < MaxOps
  /\ folder_path # "none" /\ DOMAIN crop_data # {}
  /\ output_folder' = export_all(folder_path, output_folder, crop_data)
  /\ lastOp' = "export_images"
  /\ nOps' = nOps + 1
  /\ UNCHANGED << appVars, disk, returned >>

NextExport ==
  \/ LoadFolder
  \/ NextImage
  \/ ModeToggle
  \/ ExportImages

SpecExport == InitExport /\ [][NextExport]_vars

\* ------------------------------------------------------------- properties
\* the pages of the open folder, and what is stored for page i before and
\* after a step
ThePages == 0 .. (NumFiles(image_loader) - 1)
StoredAt(i) == Get(crop_data, FileAt(image_loader, i), None)
StoredAfter(i) == Get(crop_data', FileAt(image_loader, i), None)
SizeOf(i) == get_original_size(image_loader, FileAt(image_loader, i))

\* what _create_crop_boxes_for_image gives page i in the state after a step
Regenerated(i) == _create_crop_boxes_for_image(St', SizeOf(i), i)

\* the step is a completed box edit, a mode click, a spin box edit
BoxEdit == lastOp' = "on_crop_changed" /\ image_loader # "none" /\ ~crashed'
ModeClick == lastOp' = "on_mode_changed" /\ image_loader # "none" /\ ~crashed'
DimsEdit == lastOp' = "on_crop_dimensions_changed"

\* C1: a box edit or a mode toggle on page k leaves the stored crop data of
\* every page before k, and of every other page already in
\* manually_adjusted_pages, as it was.
C1_Frame ==
  [][ (BoxEdit \/ ModeClick) =>
        \A i \in ThePages :
          (i < current_image_index
             \/ (i \in manually_adjusted_pages /\ i # current_image_index))
          => StoredAfter(i) = StoredAt(i) ]_vars

\* an edit with a new master offset on page 1 of folder A, page 2 adjusted
C1_Witness ==
  /\ lastOp = "on_crop_changed" /\ image_loader = "A" /\ ~crashed
  /\ current_image_index = 1
  /\ 2 \in manually_adjusted_pages
  /\ master_single_position.x # 0
  /\ Has(crop_data, "p1.jpg")

\* C2: after a box edit on page k every page i > k that is not in
\* manually_adjusted_pages holds what _create_crop_boxes_for_image produces
\* from the current dimensions, master positions and effective mode.
C2_AllRegenerated ==
  [][ BoxEdit =>
        \A i \in ThePages :
          (i > current_image_index /\ i \notin manually_adjusted_pages')
          => StoredAfter(i) = Regenerated(i) ]_vars

\* j is the first manually adjusted page after the current one
NextAdjusted(j) ==
  /\ j > current_image_index
  /\ j \in manually_adjusted_pages
  /\ \A m \in manually_adjusted_pages : m > current_image_index => j <= m

\* C3 as claimed: propagation stops at the next manually adjusted page j, no
\* page after j is modified.
C3_StopsAtAdjusted ==
  [][ (BoxEdit \/ ModeClick) =>
        \A j \in ThePages : NextAdjusted(j) =>
          \A i \in ThePages : i > j => StoredAfter(i) = StoredAt(i) ]_vars

\* C3 amended: propagation skips the next manually adjusted page j and goes
\* on after it: page j is left as it was, and every page after j is
\* regenerated when it is unadjusted and its size is known, and left as it
\* was otherwise.
C3_SkipsAdjusted ==
  [][ (BoxEdit \/ ModeClick) =>
        \A j \in ThePages : NextAdjusted(j) =>
          /\ StoredAfter(j) = StoredAt(j)
          /\ \A i \in ThePages : i > j =>
               IF i \notin manually_adjusted_pages' /\ SizeOf(i) # <<0, 0>>
               THEN StoredAfter(i) = Regenerated(i)
               ELSE StoredAfter(i) = StoredAt(i) ]_vars

\* an edit on page 0 of folder A with page 1 adjusted moved page 2
C3_Witness ==
  /\ lastOp = "on_crop_changed" /\ image_loader = "A" /\ ~crashed
  /\ current_image_index = 0
  /\ 1 \in manually_adjusted_pages /\ 2 \notin manually_adjusted_pages
  /\ master_single_position.x # 0
  /\ crop_data["p3.jpg"].left_box.x # crop_data["p2.jpg"].left_box.x

\* C4: after a box edit on a page of known size, regenerating that page gives
\* boxes with the x and y of the edited boxes (left, and right when present).
C4_Idempotent ==
  [][ (BoxEdit /\ SizeOf(current_image_index) # <<0, 0>>) =>
        LET e == StoredAfter(current_image_index)
            r == Regenerated(current_image_index)
        IN  /\ Has(e, "left_box") =>
                 r.left_box.x = e.left_box.x /\ r.left_box.y = e.left_box.y
            /\ Has(e, "right_box") =>
                 /\ Has(r, "right_box")
                 /\ r.right_box.x = e.right_box.x /\ r.right_box.y = e.right_box.y ]_vars

DefaultBoxA == [x |-> 100, y |-> 150, width |-> 800, height |-> 1200]
EditedBoxA == [x |-> 120, y |-> 150, width |-> 800, height |-> 1200]
FilesA == {"p1.jpg", "p2.jpg", "p3.jpg"}

\* the session right after folder A was opened for the first time
FreshA ==
  /\ image_loader = "A"
  /\ crop_data = [f \in FilesA |-> [is_double_page |-> FALSE, left_box |-> DefaultBoxA]]
  /\ crop_width = 800 /\ crop_height = 1200
  /\ manually_adjusted_pages = {}
  /\ image_modes = <<>>
  /\ ~double_page_radio
  /\ master_single_position = [x |-> 0, y |-> 0]

\* C5: three images of 1000x1500 with an 800x1200 crop in single-page mode
\* and no saved document all start with the box x=100, y=150; editing the box
\* of page 1 to x=120, y=150 marks page 1, makes the single master offset
\* {x: 20, y: 0}, regenerates page 2 at x=120, y=150 and leaves page 0.
C5_Scenario ==
  [][ /\ (lastOp = "init" /\ lastOp' = "load_folder" /\ image_loader' = "A") => FreshA'
      /\ (/\ FreshA /\ current_image_index = 1
          /\ lastOp' = "on_crop_changed"
          /\ image_viewer.left_crop_box = EditedBoxA)
         => /\ manually_adjusted_pages' = {1}
            /\ master_single_position' = [x |-> 20, y |-> 0]
            /\ crop_data'["p1.jpg"] = [is_double_page |-> FALSE, left_box |-> DefaultBoxA]
            /\ crop_data'["p2.jpg"] = [is_double_page |-> FALSE, left_box |-> EditedBoxA]
            /\ crop_data'["p3.jpg"] = [is_double_page |-> FALSE, left_box |-> EditedBoxA]
    ]_vars

C5_Witness ==
  /\ lastOp = "on_crop_changed" /\ image_loader = "A" /\ current_image_index = 1
  /\ manually_adjusted_pages = {1}
  /\ master_single_position = [x |-> 20, y |-> 0]
  /\ crop_data["p1.jpg"].left_box = DefaultBoxA
  /\ crop_data["p2.jpg"].left_box = EditedBoxA
  /\ crop_data["p3.jpg"].left_box = EditedBoxA

\* the entry b is the entry a with the size of its boxes replaced by w x h
SameButSize(a, b, w, h) ==
  \/ a = None /\ b = None
  \/ /\ a # None /\ b # None
     /\ DOMAIN b = DOMAIN a
     /\ b.is_double_page = a.is_double_page
     /\ \A k \in DOMAIN a \cap {"left_box", "right_box"} :
          b[k] = [x |-> a[k].x, y |-> a[k].y, width |-> w, height |-> h]

OtherAdjusted(i) == i \in manually_adjusted_pages /\ i # current_image_index

\* C6 as claimed: what is stored for a manually adjusted page is left as it
\* was by a box edit, a mode toggle and a dimension change on another page.
C6_NeverOverwritten ==
  [][ (BoxEdit \/ ModeClick \/ DimsEdit) =>
        \A i \in ThePages : OtherAdjusted(i) => StoredAfter(i) = StoredAt(i) ]_vars

\* C6 amended: a box edit and a mode toggle on another page leave a manually
\* adjusted page as it was; a dimension change on another page replaces the
\* width and height of its boxes and leaves their x and y, the boxes present
\* and is_double_page as they were.
C6_OnlyResized ==
  [][ /\ (BoxEdit \/ ModeClick) =>
           \A i \in ThePages : OtherAdjusted(i) => StoredAfter(i) = StoredAt(i)
      /\ DimsEdit =>
           \A i \in ThePages : OtherAdjusted(i) =>
              SameButSize(StoredAt(i), StoredAfter(i), crop_width', crop_height') ]_vars

\* a dimension change on page 1 of folder A resized the adjusted page 0
C6_Witness ==
  /\ lastOp = "on_crop_dimensions_changed" /\ image_loader = "A"
  /\ current_image_index = 1
  /\ 0 \in manually_adjusted_pages
  /\ crop_width = 900 \/ crop_height = 900
  /\ crop_data["p1.jpg"].left_box.width = crop_width
  /\ crop_data["p1.jpg"].left_box.height = crop_height

\* C7: no box edit, mode toggle, dimension change, navigation or save takes
\* an index out of manually_adjusted_pages.
C7_Monotonic ==
  [][ lastOp' \in {"on_crop_changed", "on_mode_changed", "on_crop_dimensions_changed",
                   "prev_image", "next_image", "save_crop_data",
                   "mousePressEvent", "mouseMoveEvent"}
      => manually_adjusted_pages \subseteq manually_adjusted_pages' ]_vars

\* a mode toggle on a second page, the first page still marked
C7_Witness ==
  /\ lastOp = "on_mode_changed" /\ image_loader = "A" /\ ~crashed
  /\ Cardinality(manually_adjusted_pages) >= 2

\* C8: every entry of crop_data has a right_box exactly when its
\* is_double_page is true.
C8_RightIffDouble ==
  \A f \in DOMAIN crop_data :
    Has(crop_data[f], "right_box") <=> crop_data[f].is_double_page

ViewerAligned(v) ==
  (v.is_double_page /\ v.left_crop_box # None /\ v.right_crop_box # None)
  => v.left_crop_box.y = v.right_crop_box.y

EntryAligned(e) ==
  (e # None /\ e.is_double_page /\ Has(e, "left_box") /\ Has(e, "right_box"))
  => e.left_box.y = e.right_box.y

\* C9: in double-page mode the two boxes have the same y after every drag or
\* resize step and in the entry stored when the gesture ends; so have the
\* entries made by default placement (a folder opened without a document),
\* by a mode toggle and by propagation.
C9_SharedY ==
  [][ /\ lastOp' = "mouseMoveEvent" => ViewerAligned(image_viewer')
      /\ (lastOp = "mouseMoveEvent" /\ BoxEdit) =>
           EntryAligned(StoredAfter(current_image_index))
      /\ (BoxEdit \/ ModeClick) =>
           \A i \in ThePages :
             (i > current_image_index /\ i \notin manually_adjusted_pages')
             => EntryAligned(StoredAfter(i))
      /\ ModeClick => EntryAligned(StoredAfter(current_image_index))
      /\ (lastOp' = "load_folder" /\ disk[image_loader'] = None) =>
           \A i \in 0 .. (NumFiles(image_loader') - 1) :
             EntryAligned(Get(crop_data', FileAt(image_loader', i), None)) ]_vars

\* a drag step in double-page mode that moved the active box vertically
C9_Witness ==
  /\ lastOp = "mouseMoveEvent" /\ image_loader = "A"
  /\ image_viewer.dragging
  /\ image_viewer.is_double_page
  /\ image_viewer.left_crop_box # None /\ image_viewer.right_crop_box # None
  /\ image_viewer.left_crop_box.y
       # crop_data[FileAt(image_loader, current_image_index)].left_box.y

\* C10: a dimension change makes crop_width x crop_height the size of every
\* box of every page that has crop data, adjusted or not, and leaves every
\* box's x and y, and the boxes present, as they were.
C10_Dimensions ==
  [][ DimsEdit =>
        /\ crop_width' = width_spinbox' /\ crop_height' = height_spinbox'
        /\ \A i \in ThePages :
             LET a == StoredAt(i)
                 b == StoredAfter(i)
             IN  a # None =>
                   /\ b # None
                   /\ DOMAIN b = DOMAIN a
                   /\ \A k \in DOMAIN a \cap {"left_box", "right_box"} :
                        b[k] = [x |-> a[k].x, y |-> a[k].y,
                                width |-> crop_width', height |-> crop_height'] ]_vars

\* a dimension change with an adjusted double page and unadjusted pages
C10_Witness ==
  /\ lastOp = "on_crop_dimensions_changed" /\ image_loader = "A"
  /\ manually_adjusted_pages = {1}
  /\ crop_width = 900 \/ crop_height = 900
  /\ crop_data["p2.jpg"].is_double_page
  /\ crop_data["p2.jpg"].right_box.width = crop_width
  /\ crop_data["p2.jpg"].right_box.height = crop_height
  /\ crop_data["p1.jpg"].left_box.height = crop_height

\* C11: a dimension change made while page k is current propagates forward:
\* afterwards every page i > k that is not in manually_adjusted_pages holds
\* what _create_crop_boxes_for_image produces from the new dimensions, the
\* master positions and its effective mode.
C11_DimsPropagate ==
  [][ (DimsEdit /\ image_loader # "none") =>
        \A i \in ThePages :
          (i > current_image_index /\ i \notin manually_adjusted_pages')
          => StoredAfter(i) = Regenerated(i) ]_vars

\* the image_modes entry of page i is the same before and after a step
SameModeEntry(i) ==
  LET f == FileAt(image_loader, i)
  IN  /\ Has(image_modes', f) <=> Has(image_modes, f)
      /\ Has(image_modes, f) => image_modes'[f] = image_modes[f]

\* the image_modes entry of page i after a step is m
ModeEntryIs(i, m) ==
  LET f == FileAt(image_loader, i)
  IN  Has(image_modes', f) /\ image_modes'[f] = m

\* C12: a mode toggle on page k to mode m sets image_modes of page k and of
\* every unadjusted page i > k to m, leaves image_modes of every adjusted
\* page i > k and of every page i < k as it was, regenerates page k in mode
\* m, adds k to manually_adjusted_pages, and leaves every unadjusted page
\* i > k with crop data whose is_double_page is m.
C12_ModeToggle ==
  [][ ModeClick =>
        /\ ModeEntryIs(current_image_index, double_page_radio')
        /\ StoredAfter(current_image_index) = Regenerated(current_image_index)
        /\ StoredAfter(current_image_index).is_double_page = double_page_radio'
        /\ current_image_index \in manually_adjusted_pages'
        /\ \A i \in ThePages :
             /\ (i > current_image_index /\ i \notin manually_adjusted_pages) =>
                  /\ ModeEntryIs(i, double_page_radio')
                  /\ StoredAfter(i) # None
                  /\ StoredAfter(i).is_double_page = double_page_radio'
             /\ (i < current_image_index
                   \/ (i > current_image_index /\ i \in manually_adjusted_pages))
                => SameModeEntry(i) ]_vars

\* a folder with images and no crop_data.json was opened by the step
OpenedWithoutDocument ==
  /\ lastOp' = "load_folder"
  /\ NumFiles(image_loader') > 0
  /\ disk[image_loader'] = None

ZeroPosition == [x |-> 0, y |-> 0]

\* C17: opening a folder that has images and no persisted document, while
\* another folder was open, discards the previous folder's state: manually_adjusted_pages and image_modes are
\* empty, the three master positions are {x:0,y:0}, the crop dimensions are
\* the defaults, and every page of known size has the default placement a
\* fresh session gives it in the mode the radio buttons show.
C17_FolderReset ==
  [][ (OpenedWithoutDocument /\ image_loader # "none") =>
        /\ manually_adjusted_pages' = {}
        /\ image_modes' = <<>>
        /\ master_single_position' = ZeroPosition
        /\ master_left_position' = ZeroPosition
        /\ master_right_position' = ZeroPosition
        /\ crop_width' = DefaultCropWidth /\ crop_height' = DefaultCropHeight
        /\ \A i \in 0 .. (NumFiles(image_loader') - 1) :
             LET f == FileAt(image_loader', i)
                 size == get_original_size(image_loader', f)
             IN  size # <<0, 0>> =>
                   /\ Has(crop_data', f)
                   /\ crop_data'[f] =
                        _create_crop_boxes_for_image(
                          [AppInit EXCEPT !.image_loader = image_loader',
                                          !.double_page_radio = double_page_radio'],
                          size, i)
    ]_vars

\* C18: in every reachable state crop_width and crop_height are within
\* 100..5000.
C18_DimensionsInRange ==
  /\ crop_width \in SpinMin .. SpinMax
  /\ crop_height \in SpinMin .. SpinMax

\* values tried in place of master_right_position.y
OtherRightYs == {-7, 13}

\* page i of the open folder is placed as the double-page formula says, and
\* the same whatever master_right_position.y is
DoublePlacementHolds(s, i) ==
  LET f == FileAt(s.image_loader, i)
      size == get_original_size(s.image_loader, f)
      r == _create_crop_boxes_for_image(s, size, i)
      y == (size[2] - s.crop_height) \div 2 + s.master_left_position.y
  IN  /\ EffectiveMode(s, f) =>
           /\ r.is_double_page
           /\ r.left_box.x = size[1] \div 4 - s.crop_width \div 2 + s.master_left_position.x
           /\ r.right_box.x = (3 * size[1]) \div 4 - s.crop_width \div 2
                                + s.master_right_position.x
           /\ r.left_box.y = y /\ r.right_box.y = y
      /\ \A other \in OtherRightYs :
           _create_crop_boxes_for_image(
             [s EXCEPT !.master_right_position.y = other], size, i) = r

\* C20: the default double-page placement for an image of size (W,H) is
\* leftX = W//4 - crop_width//2 + masterLeft.x, rightX = (3*W)//4 -
\* crop_width//2 + masterRight.x, both y = (H - crop_height)//2 + masterLeft.y;
\* master_right_position.y influences no generated box and no box edit or
\* mode toggle assigns it.  The placement is examined for every page in the
\* state each handler that places boxes leaves.
C20_DoublePlacement ==
  [][ /\ (BoxEdit \/ ModeClick) => master_right_position'.y = master_right_position.y
      /\ (/\ lastOp' \in {"load_folder", "on_crop_changed", "on_mode_changed"}
          /\ image_loader' # "none") =>
           \A i \in 0 .. (NumFiles(image_loader') - 1) : DoublePlacementHolds(St', i) ]_vars

\* a drag of the right box of a double page moved both boxes vertically
C20_Witness ==
  /\ lastOp = "on_crop_changed" /\ image_loader = "A" /\ ~crashed
  /\ double_page_radio
  /\ master_left_position.y # 0
  /\ master_right_position.x # 0
  /\ master_right_position.y = 0
  /\ Has(crop_data[FileAt(image_loader, current_image_index)], "right_box")

\* the box the handle is held on, before and after a step
ActiveBox == BoxOf(image_viewer, image_viewer.active_box)
ActiveBoxAfter == BoxOf(image_viewer', image_viewer.active_box)

\* C19: after a resize by any of the four corner handles to any pointer
\* position the resized box is at least 50 wide and 50 high, and the two
\* edges opposite to the handle are where they were.
C19_ResizeMinimum ==
  [][ lastOp' = "_handle_resize" =>
        /\ ActiveBoxAfter.width >= MinBoxSize
        /\ ActiveBoxAfter.height >= MinBoxSize
        /\ HasTop(image_viewer.resize_handle) =>
             ActiveBoxAfter.y + ActiveBoxAfter.height = ActiveBox.y + ActiveBox.height
        /\ HasBottom(image_viewer.resize_handle) => ActiveBoxAfter.y = ActiveBox.y
        /\ HasLeft(image_viewer.resize_handle) =>
             ActiveBoxAfter.x + ActiveBoxAfter.width = ActiveBox.x + ActiveBox.width
        /\ HasRight(image_viewer.resize_handle) => ActiveBoxAfter.x = ActiveBox.x ]_vars

\* the top-left handle was taken beyond the opposite corner: the box stopped
\* at 50 x 50 with its bottom-right corner in place
C19_Witness ==
  /\ lastOp = "_handle_resize" /\ image_loader = "A"
  /\ image_viewer.resize_handle = "top_left"
  /\ ActiveBox.width = MinBoxSize /\ ActiveBox.height = MinBoxSize
  /\ ActiveBox.x + ActiveBox.width = 900 /\ ActiveBox.y + ActiveBox.height = 1350

\* what a save and a load are to keep
Snapshot(s) ==
  [ crop_data |-> s.crop_data,
    single |-> s.master_single_position,
    left |-> s.master_left_position,
    right |-> s.master_right_position,
    image_modes |-> s.image_modes,
    manually_adjusted_pages |-> s.manually_adjusted_pages ]

\* C13: save_crop_data followed by load_crop_data of the written document,
\* in the same session or in a fresh one, gives back the crop data, the
\* three master positions, image_modes and manually_adjusted_pages that were
\* saved.
C13_RoundTrip ==
  [][ /\ (/\ lastOp = "save_crop_data" /\ lastOp' = "load_folder"
          /\ image_loader' = image_loader)
         => Snapshot(St') = Snapshot(St)
      /\ (/\ lastOp = "init" /\ lastOp' = "load_folder"
          /\ image_loader' = "A" /\ disk["A"] = DocSaved)
         => Snapshot(St') = Snapshot(SavedState) ]_vars

\* a fresh session loaded the saved document: marked pages, per-image modes
\* and master offsets are back
C13_Witness ==
  /\ lastOp = "load_folder" /\ image_loader = "A" /\ nOps = 2
  /\ disk["A"] = DocSaved
  /\ manually_adjusted_pages = {1}
  /\ Has(image_modes, "p3.jpg")
  /\ master_left_position.y # 0 /\ master_right_position.x # 0
  /\ Has(crop_data["p2.jpg"], "right_box")

\* the step opened a folder with images whose document is doc
Loaded(doc) ==
  /\ lastOp' = "load_folder"
  /\ NumFiles(image_loader') > 0
  /\ disk[image_loader'] = doc

DefaultSettings ==
  /\ crop_width' = DefaultCropWidth /\ crop_height' = DefaultCropHeight
  /\ manually_adjusted_pages' = {}
  /\ image_modes' = <<>>
  /\ master_single_position' = ZeroPosition
  /\ master_left_position' = ZeroPosition
  /\ master_right_position' = ZeroPosition

\* C14: loading a document that has no _settings record leaves the default
\* settings (800 x 1200, no adjusted pages, no image modes, zero master
\* positions), whatever the session was before.
C14_NoSettingsDefaults ==
  [][ Loaded(DocNoSettings) => DefaultSettings ]_vars

\* the field of the session after the step is the persisted one when
\* settings has it, the default otherwise
FieldRestored(settings, field, value, default) ==
  IF Has(settings, field) THEN value = settings[field] ELSE value = default

MastersRestored(settings) ==
  LET positions == Get(settings, "master_positions", <<>>)
  IN  /\ master_single_position' = Get(positions, "single", ZeroPosition)
      /\ master_left_position' = Get(positions, "left", ZeroPosition)
      /\ master_right_position' = Get(positions, "right", ZeroPosition)

\* C15: each field of _settings restores on its own: after loading a
\* document with some of the fields, every field present has its persisted
\* value, every field absent has its default, and the load does not fail.
C15_FieldsIndependent ==
  [][ \A doc \in {DocModeOnly, DocPartial} :
        Loaded(doc) =>
          /\ ~crashed'
          /\ crop_data' = HandEntries
          /\ FieldRestored(doc["_settings"], "crop_width", crop_width', DefaultCropWidth)
          /\ FieldRestored(doc["_settings"], "crop_height", crop_height', DefaultCropHeight)
          /\ FieldRestored(doc["_settings"], "image_modes", image_modes', <<>>)
          /\ IF Has(doc["_settings"], "manually_adjusted_pages")
             THEN manually_adjusted_pages'
                    = ListToSet(doc["_settings"].manually_adjusted_pages)
             ELSE manually_adjusted_pages' = {}
          /\ MastersRestored(doc["_settings"]) ]_vars

\* what load_crop_data returns to load_folder in the step that opens folder
LoadReturns(folder) ==
  load_crop_data([St EXCEPT !.image_loader = folder, !.current_image_index = 0],
                 disk[folder])

\* C16: when an exception occurs while load_crop_data reads or interprets
\* the document (it is not JSON, or a number stands where the list of
\* adjusted pages belongs), load_crop_data returns normally with an empty
\* crop_data, and load_folder goes on to place the default boxes.
C16_LoadErrorEmpty ==
  [][ \A doc \in {InvalidJson, DocBadAdjusted} :
        Loaded(doc) =>
          /\ LoadReturns(image_loader').crop_data = <<>>
          /\ ~LoadReturns(image_loader').crashed
          /\ ~crashed' /\ save_crops_button'
          /\ crop_data' = _initialize_all_crop_boxes(LoadReturns(image_loader')).crop_data
    ]_vars

\* the document with the number was loaded: the width before the number was
\* restored, the hand-written boxes were dropped
C16_Witness ==
  /\ lastOp = "load_folder" /\ image_loader = "A" /\ ~crashed
  /\ disk["A"] = DocBadAdjusted
  /\ crop_width = 900
  /\ save_crops_button
  /\ crop_data["p1.jpg"].left_box # HandBox

\* the single-page box placed for an image of this size is centred
Centred(box, size, w, h) ==
  /\ box.x = (size[1] - w) \div 2 /\ box.y = (size[2] - h) \div 2
  /\ 2 * box.x + w - size[1] \in {-1, 0}
  /\ 2 * box.y + h - size[2] \in {-1, 0}
  /\ box.width = w /\ box.height = h

\* C21: with a zero single master offset the default single-page box is
\* centred, x = (W - crop_width)//2 and y = (H - crop_height)//2, within one
\* pixel of the image's centre, by floor division also when the crop box is
\* larger than the image.  Examined on the boxes load_folder places and on
\* the placement of further sizes.
C21_SingleCentred ==
  [][ (lastOp' = "load_folder" /\ NumFiles(image_loader') > 0) =>
        /\ \A i \in 0 .. (NumFiles(image_loader') - 1) :
             LET f == FileAt(image_loader', i)
                 size == get_original_size(image_loader', f)
             IN  size # <<0, 0>> =>
                   /\ Has(crop_data', f)
                   /\ ~crop_data'[f].is_double_page
                   /\ Centred(crop_data'[f].left_box, size, crop_width', crop_height')
        /\ \A size \in PlaceSizes :
             Centred(_create_crop_boxes_for_image(St', size, 0).left_box,
                     size, crop_width', crop_height') ]_vars

\* folder A opened with a crop box wider than its images: x is negative and
\* rounded down
C21_Witness ==
  /\ lastOp = "load_folder" /\ image_loader = "A"
  /\ crop_width = 1201 /\ crop_height = 100
  /\ crop_data["p1.jpg"].left_box.x = -101
  /\ crop_data["p1.jpg"].left_box.y = 700

\* C22: the scale-factor computation returns (1.0, 1.0), and raises nothing,
\* when the original size is zero or when either side of the preview is zero.
\* It does so for a zero original size; for a preview with an empty side and
\* a known original size it raises ZeroDivisionError.
C22_ZeroScaleIsOne ==
  [][ lastOp' = "get_scale_factor" =>
        LET loader == returned'.args[1]
            filename == returned'.args[2]
            preview_size == returned'.args[3]
        IN  (\/ get_original_size(loader, filename) = <<0, 0>>
             \/ preview_size[1] = 0
             \/ preview_size[2] = 0)
            => returned'.value = [scale |-> << One, One >>] ]_vars

\* C23: the exported image is a canvas of exactly width x height; what is
\* pasted is the intersection of the box with the image, at
\* (max(0,x) - x, max(0,y) - y) and inside the canvas; every pixel (i, j) of
\* the output is the source pixel (x + i, y + j) where the image has one and
\* white elsewhere, so a box that misses the image gives an all-white output.
C23_CropWithPadding ==
  [][ lastOp' = "_extract_crop_with_padding" =>
        LET img == returned'.args[1]
            box == returned'.args[2]
            image == returned'.value
            W == img.size[1]
            H == img.size[2]
            inside == { <<a, b>> \in (0 .. (W - 1)) \X (0 .. (H - 1)) :
                          /\ box.x <= a /\ a < box.x + box.width
                          /\ box.y <= b /\ b < box.y + box.height }
        IN  /\ image.size = << box.width, box.height >>
            /\ (inside = {}) <=> (image.pasted = None)
            /\ inside # {} =>
                 LET section == image.pasted.section
                     at == image.pasted.at
                 IN  /\ inside = (section[1] .. (section[3] - 1)) \X (section[2] .. (section[4] - 1))
                     /\ at = << Max(0, box.x) - box.x, Max(0, box.y) - box.y >>
                     /\ at[1] >= 0 /\ at[1] + (section[3] - section[1]) <= box.width
                     /\ at[2] >= 0 /\ at[2] + (section[4] - section[2]) <= box.height
            /\ \A i \in 0 .. (box.width - 1), j \in 0 .. (box.height - 1) :
                 PixelOf(image, i, j) =
                   IF << box.x + i, box.y + j >> \in inside
                   THEN [source |-> << box.x + i, box.y + j >>]
                   ELSE White ]_vars

\* a box that lies across the image's top-left corner
C23_Witness ==
  /\ lastOp = "_extract_crop_with_padding"
  /\ returned.args[2] = [x |-> -2, y |-> -1, width |-> 3, height |-> 2]
  /\ returned.value.pasted # None
  /\ returned.value.pasted.at = << 2, 1 >>

\* C24: export_all skips a file whose source is missing or does not open (it
\* writes nothing for it: what the output folder held under its name stays),
\* contains the error of a file whose export raises, and still writes every
\* output of every other file of crop_data.
C24_BatchContinues ==
  [][ lastOp' = "export_images" =>
        \A f \in DOMAIN crop_data :
          /\ (~SourceExists(folder_path, f) \/ SourceEntry(folder_path, f).size = None)
               => \A path \in DOMAIN output_folder' :
                    path[1] = f => /\ path \in DOMAIN output_folder
                                   /\ output_folder'[path] = output_folder[path]
          /\ ~ExportFails(folder_path, f, crop_data[f]) =>
               LET alone == _export_image(folder_path, << >>, f, crop_data[f])
               IN  /\ DOMAIN alone # {}
                   /\ \A path \in DOMAIN alone :
                        /\ path \in DOMAIN output_folder'
                        /\ output_folder'[path] = alone[path] ]_vars

\* an export of folder A whose crop data has an entry for a deleted scan
C24_Witness ==
  /\ lastOp = "export_images"
  /\ image_loader = "A"
  /\ DOMAIN crop_data = {"gone.jpg", "p1.jpg", "p2.jpg"}
  /\ DOMAIN output_folder = { <<"p1.jpg", "">>, <<"p2.jpg", "">> }

\* C25: image_files holds only files whose original size was read, so the
\* page navigation lands on always has a known size.  The scan appends a file
\* before it opens it: an undecodable file stays in the list.
C25_OnlyDecodable ==
  image_loader # "none" =>
    \A i \in 0 .. (NumFiles(image_loader) - 1) :
      /\ FileAt(image_loader, i) \in DOMAIN original_sizes(image_loader)
      /\ get_original_size(image_loader, FileAt(image_loader, i)) # <<0, 0>>

\* the effective mode of page i: its own override, else the global toggle
ModeBefore(i) == EffectiveMode(St, FileAt(image_loader, i))
ModeAfter(i) == EffectiveMode(St', FileAt(image_loader', i))

\* C26: prev_image / next_image change the current index only: every page's
\* stored crop data, its image_modes entry and its effective mode are the
\* same after navigating as before.  The crop data and the entries are; the
\* global toggle is set to the mode of the page navigated to, which changes
\* the effective mode of the pages without an entry.
C26_NavigationFrame ==
  [][ lastOp' \in {"prev_image", "next_image"} =>
        /\ crop_data' = crop_data
        /\ image_modes' = image_modes
        /\ \A i \in ThePages : ModeAfter(i) = ModeBefore(i) ]_vars

\* the boxes the viewer holds, as page j's crop data would give them
ViewerShows(v, entry) ==
  /\ v.left_crop_box = IF Has(entry, "left_box") THEN from_dict(entry.left_box) ELSE None
  /\ v.right_crop_box = IF Has(entry, "right_box") /\ Get(entry, "is_double_page", FALSE)
                        THEN from_dict(entry.right_box) ELSE None

\* C27: after navigating to page j the viewer holds exactly the boxes of
\* crop_data[file_j], and none when page j has no crop data.  When page j has
\* no preview the display is not updated and the viewer keeps the boxes of
\* the page shown before.
C27_ViewerShowsCurrent ==
  [][ lastOp' \in {"prev_image", "next_image"} =>
        LET file_j == FileAt(image_loader', current_image_index')
        IN  IF Has(crop_data', file_j)
            THEN ViewerShows(image_viewer', crop_data'[file_j])
            ELSE /\ image_viewer'.left_crop_box = None
                 /\ image_viewer'.right_crop_box = None ]_vars

\* C28: whenever an image loader is present current_image_index is a valid
\* index into image_files.  load_folder on a folder without images replaces
\* the loader and returns before it resets the index.
C28_IndexValid ==
  image_loader # "none" =>
    /\ 0 <= current_image_index
    /\ current_image_index < NumFiles(image_loader)

\* the three master positions of a state
Masters(s) ==
  << s.master_single_position, s.master_left_position, s.master_right_position >>

\* C29: a mode toggle on a page whose original size is known leaves the three
\* master positions as they were: the current page is regenerated from the
\* masters, and the masters derived again from the regenerated page are the
\* previous ones.
C29_ToggleKeepsMasters ==
  [][ (ModeClick /\ SizeOf(current_image_index) # <<0, 0>>) =>
        LET k == current_image_index
            file_k == FileAt(image_loader, k)
        IN  /\ Masters(St') = Masters(St)
            /\ StoredAfter(k) = Regenerated(k)
            /\ Masters(_update_master_positions(St', StoredAfter(k), file_k)) = Masters(St) ]_vars

\* a toggle to double-page mode after a drag gave the single master an offset
C29_Witness ==
  /\ lastOp = "on_mode_changed" /\ image_loader = "A" /\ ~crashed
  /\ double_page_radio
  /\ master_single_position = [x |-> 20, y |-> 0]
  /\ crop_data[FileAt(image_loader, current_image_index)].is_double_page

\* the boxes of a stored entry all measure w x h
BoxesMeasure(entry, w, h) ==
  \A key \in DOMAIN entry \cap {"left_box", "right_box"} :
    entry[key].width = w /\ entry[key].height = h

\* the boxes of entry b have the sizes of the boxes of entry a
SameBoxSizes(a, b) ==
  \/ a = None /\ b = None
  \/ /\ a # None /\ b # None
     /\ DOMAIN b \cap {"left_box", "right_box"} = DOMAIN a \cap {"left_box", "right_box"}
     /\ \A key \in DOMAIN a \cap {"left_box", "right_box"} :
          b[key].width = a[key].width /\ b[key].height = a[key].height

\* C30: after a box edit on page k that delivers a left box, crop_width and
\* crop_height are the width and height of page k's left box, every
\* regenerated page i > k (not adjusted, size known) has boxes of exactly
\* those dimensions, and the boxes of the pages before k and of the other
\* adjusted pages keep their dimensions.
C30_ResizeDimensions ==
  [][ (BoxEdit /\ Has(StoredAfter(current_image_index), "left_box")) =>
        LET k == current_image_index
        IN  /\ crop_width' = StoredAfter(k).left_box.width
            /\ crop_height' = StoredAfter(k).left_box.height
            /\ \A i \in ThePages :
                 /\ (i > k /\ i \notin manually_adjusted_pages' /\ SizeOf(i) # <<0, 0>>)
                      => /\ StoredAfter(i) # None
                         /\ Has(StoredAfter(i), "left_box")
                         /\ BoxesMeasure(StoredAfter(i), crop_width', crop_height')
                 /\ (i < k \/ (i # k /\ i \in manually_adjusted_pages))
                      => SameBoxSizes(StoredAt(i), StoredAfter(i)) ]_vars

\* a handle resize on page 1 of folder A: page 2 follows, page 0 keeps
\* 800 x 1200
C30_Witness ==
  /\ lastOp = "on_crop_changed" /\ image_loader = "A" /\ ~crashed
  /\ current_image_index = 1
  /\ crop_width # DefaultCropWidth
  /\ crop_data["p2.jpg"].left_box.width = crop_width
  /\ crop_data["p3.jpg"].left_box.width = crop_width
  /\ crop_data["p3.jpg"].left_box.height = crop_height
  /\ crop_data["p1.jpg"].left_box.width = DefaultCropWidth

\* C31: save_crop_data leaves the session as it was: crop_data, the master
\* positions, image_modes, manually_adjusted_pages and the crop dimensions
\* are the same after the save as before, while the document written holds
\* _settings; and _settings is never a key of the session's crop_data, after
\* a save, after a load of a document that holds _settings, or after any
\* other step.
C31_SaveFrame ==
  [][ /\ lastOp' = "save_crop_data" =>
           /\ Snapshot(St') = Snapshot(St)
           /\ crop_width' = crop_width /\ crop_height' = crop_height
           /\ Has(disk'[folder_path], "_settings")
           /\ [f \in DOMAIN disk'[folder_path] \ {"_settings"} |-> disk'[folder_path][f]]
                = crop_data'
      /\ ~Has(crop_data', "_settings") ]_vars

\* a session restored from a document with _settings (crop_width 900) and
\* saved again
C31_Witness ==
  /\ lastOp = "save_crop_data" /\ image_loader = "A" /\ ~crashed
  /\ crop_width = 900
  /\ disk["A"] = SaveData(St)
  /\ DOMAIN crop_data = {"p1.jpg", "p2.jpg", "p3.jpg"}

====
